---- MODULE Spec2Model ----
(***************************************************************************)
(* resvg-wasm (src/resvg-wasm/src/lib.rs): the exported C-ABI surface of   *)
(* the SVG rendering module.  The state is the three process-wide statics  *)
(* FONT_DB, RESULT_BUF and ERROR_BUF plus the regions handed out by        *)
(* alloc_mem; there is one action per exported function.                   *)
(*                                                                         *)
(* usvg, tiny_skia, fontdb and the global allocator are collaborators      *)
(* outside the repository.  What they return for a given input is part of  *)
(* the input: a document pairs the markup bytes with the result of         *)
(* usvg::Tree::from_str on them, a font pairs its bytes with the number of *)
(* faces fontdb finds in them, and the PNG encoder's verdict is drawn with *)
(* the call.                                                               *)
(***************************************************************************)
EXTENDS Integers, Sequences, FiniteSets, TLC

VARIABLES
    FONT_DB,      \* static mut FONT_DB: Option<Arc<Database>>
    RESULT_BUF,   \* static mut RESULT_BUF: Vec<u8>
    ERROR_BUF,    \* static mut ERROR_BUF: Vec<u8> (the message text)
    heap,         \* regions returned by alloc_mem and not yet released
    inflight,     \* the render call that has taken its Arc clone and not returned
    call,         \* the exported call that returned last: name, inputs, status
    pre           \* what that call found: FONT_DB, and whether each buffer held bytes

vars == <<FONT_DB, RESULT_BUF, ERROR_BUF, heap, inflight, call, pre>>

-----------------------------------------------------------------------------
(* Bounds of the model. *)

\* font_db_add is not offered once the database holds this many loaded fonts.
MaxFonts == 1

\* Bytes of linear memory the allocator can hand out (addresses 1..MemSize).
MemSize == 1

-----------------------------------------------------------------------------
(* Option<T> *)

None == [tag |-> "None"]

Some(v) == [tag |-> "Some", val |-> v]

-----------------------------------------------------------------------------
(* std::str::from_utf8 and the Display text of its Utf8Error. *)

IsCont(b) == b >= 128 /\ b <= 191

\* Width of the sequence a lead byte announces; 0 for a byte that cannot lead.
Utf8CharWidth(b) ==
    IF b < 128 THEN 1
    ELSE IF b >= 194 /\ b <= 223 THEN 2
    ELSE IF b >= 224 /\ b <= 239 THEN 3
    ELSE IF b >= 240 /\ b <= 244 THEN 4
    ELSE 0

\* The range the second byte of a sequence led by b must lie in.
SecondOk(b, c) ==
    IF b = 224 THEN c >= 160 /\ c <= 191
    ELSE IF b = 237 THEN c >= 128 /\ c <= 159
    ELSE IF b = 240 THEN c >= 144 /\ c <= 191
    ELSE IF b = 244 THEN c >= 128 /\ c <= 143
    ELSE IsCont(c)

Utf8Err(i, n) == [ok |-> FALSE, valid_up_to |-> i, error_len |-> n]

\* Validation from index i (1-based here, 0-based in valid_up_to).  error_len
\* is 0 for an input that ends inside a sequence (Rust's error_len() = None).
RECURSIVE Utf8From(_, _)
Utf8From(data, i) ==
    IF i > Len(data) THEN [ok |-> TRUE, valid_up_to |-> Len(data), error_len |-> 0]
    ELSE LET b == data[i]
             w == Utf8CharWidth(b)
             has(k) == i + k <= Len(data)
         IN  IF w = 0 THEN Utf8Err(i - 1, 1)
             ELSE IF w = 1 THEN Utf8From(data, i + 1)
             ELSE IF ~has(1) THEN Utf8Err(i - 1, 0)
             ELSE IF ~SecondOk(b, data[i + 1]) THEN Utf8Err(i - 1, 1)
             ELSE IF w = 2 THEN Utf8From(data, i + 2)
             ELSE IF ~has(2) THEN Utf8Err(i - 1, 0)
             ELSE IF ~IsCont(data[i + 2]) THEN Utf8Err(i - 1, 2)
             ELSE IF w = 3 THEN Utf8From(data, i + 3)
             ELSE IF ~has(3) THEN Utf8Err(i - 1, 0)
             ELSE IF ~IsCont(data[i + 3]) THEN Utf8Err(i - 1, 3)
             ELSE Utf8From(data, i + 4)

from_utf8(data) == Utf8From(data, 1)

\* impl Display for Utf8Error
Utf8ErrorDisplay(e) ==
    IF e.error_len # 0
    THEN "invalid utf-8 sequence of " \o ToString(e.error_len)
             \o " bytes from index " \o ToString(e.valid_up_to)
    ELSE "incomplete utf-8 byte sequence from index " \o ToString(e.valid_up_to)

\* format!("invalid UTF-8: {}", e)
InvalidUtf8Msg(data) == "invalid UTF-8: " \o Utf8ErrorDisplay(from_utf8(data))

NotInitializedMsg == "font_db not initialized"

ZeroDimensionsMsg == "SVG has zero dimensions"

PixmapMsg == "failed to create pixmap"

\* format!("SVG parse error: {}", e)
ParseErrorMsg(e) == "SVG parse error: " \o e

\* format!("PNG encode error: {}", e)
EncodeErrorMsg(e) == "PNG encode error: " \o e

-----------------------------------------------------------------------------
(* Floating point.  A finite value is m * 2^e with a small integer m; the   *)
(* products the model forms are exact in f64 except where they leave its    *)
(* exponent range.                                                          *)

Fin(m, e) == [cls |-> "fin", m |-> m, e |-> e]

NaN == [cls |-> "nan", m |-> 0, e |-> 0]

PosInf == [cls |-> "inf", m |-> 1, e |-> 0]

NegInf == [cls |-> "inf", m |-> -1, e |-> 0]

Pow2(n) == 2 ^ n

\* |m| * 2^e <= 2^k, for |m| < 2^30
MagAtMost(m, e, k) ==
    LET a == IF m < 0 THEN -m ELSE m
    IN  a = 0 \/ (e <= k /\ (k - e > 30 \/ a <= Pow2(k - e)))

\* |m| * 2^e >= 2^k, for |m| < 2^30
MagAtLeast(m, e, k) ==
    LET a == IF m < 0 THEN -m ELSE m
    IN  a # 0 /\ (e >= k \/ (k - e <= 30 /\ a >= Pow2(k - e)))

\* The top 16 bits of an IEEE-754 binary64 pattern whose low 48 bits are 0:
\* 1 sign bit, 11 exponent bits, the 4 leading fraction bits.
F64FromBits(hi) ==
    LET s    == IF hi \div 32768 = 1 THEN -1 ELSE 1
        ex   == (hi % 32768) \div 16
        frac == hi % 16
    IN  IF ex = 2047 THEN (IF frac = 0 THEN (IF s = 1 THEN PosInf ELSE NegInf) ELSE NaN)
        ELSE IF ex = 0 THEN Fin(s * frac, -1026)
        ELSE Fin(s * (16 + frac), ex - 1027)

\* a * b in f64, round to nearest: a product at or below half the least
\* subnormal is 0, one at or above 2^1024 is infinite.
MulF64(a, b) ==
    IF a.cls = "nan" \/ b.cls = "nan" THEN NaN
    ELSE IF a.cls = "inf" \/ b.cls = "inf"
         THEN IF a.m = 0 \/ b.m = 0 THEN NaN
              ELSE IF (a.m > 0) = (b.m > 0) THEN PosInf ELSE NegInf
    ELSE LET m == a.m * b.m
             e == a.e + b.e
         IN  IF MagAtMost(m, e, -1075) THEN Fin(0, 0)
             ELSE IF MagAtLeast(m, e, 1024) THEN (IF m > 0 THEN PosInf ELSE NegInf)
             ELSE Fin(m, e)

\* f64::floor in place of ceil: the fraction of a pixel is cut off.
CeilF64_Floor(x) ==
    IF x.cls # "fin" \/ x.e >= 0 THEN x
    ELSE IF -x.e > 30 THEN Fin(IF x.m < 0 THEN -1 ELSE 0, 0)
    ELSE Fin(x.m \div Pow2(-x.e), 0)

\* f64::ceil
CeilF64(x) ==
    IF x.cls # "fin" \/ x.e >= 0 THEN x
    ELSE IF -x.e > 30 THEN Fin(IF x.m > 0 THEN 1 ELSE 0, 0)
    ELSE Fin(-((-x.m) \div Pow2(-x.e)), 0)

\* A u32 as two 16-bit limbs.
U32(hi, lo) == [hi |-> hi, lo |-> lo]

U32Zero == U32(0, 0)

U32Max == U32(65535, 65535)

\* The conversion reduced modulo 2^32 (two's complement) where `as` saturates.
AsU32_Wrapping(x) ==
    IF x.cls # "fin" \/ x.e >= 32 THEN U32Zero
    ELSE IF x.e >= 16 THEN U32((x.m * Pow2(x.e - 16)) % 65536, 0)
    ELSE LET v == x.m * Pow2(x.e) IN U32((v \div 65536) % 65536, v % 65536)

\* `x as u32` for an integral f64: NaN and negatives give 0, values above
\* u32::MAX give u32::MAX.
AsU32(x) ==
    IF x.cls = "nan" THEN U32Zero
    ELSE IF x.cls = "inf" THEN (IF x.m > 0 THEN U32Max ELSE U32Zero)
    ELSE IF x.m <= 0 THEN U32Zero
    ELSE IF MagAtLeast(x.m, x.e, 32) THEN U32Max
    ELSE IF x.e >= 16 THEN U32(x.m * Pow2(x.e - 16), 0)
    ELSE LET v == x.m * Pow2(x.e) IN U32(v \div 65536, v % 65536)

\* (size as f64 * scale).ceil() as u32
PixelDim(size, scale) == AsU32(CeilF64(MulF64(size, scale)))

-----------------------------------------------------------------------------
(* The collaborators, as far as render's control flow depends on them. *)

\* ToInt of a u32 below 2^31.
ToInt(u) == u.hi * 65536 + u.lo

\* tiny_skia::Pixmap::new on a 32-bit target: None for a zero side, for a
\* width whose row of 4-byte pixels does not fit an i32, and for a byte length
\* 4*w*h that does not fit usize.
PixmapNew(w, h) ==
    IF w = U32Zero \/ h = U32Zero THEN None
    ELSE IF w.hi >= 8192 \/ h.hi >= 16384 THEN None
    ELSE IF ToInt(h) > (Pow2(30) - 1) \div ToInt(w) THEN None
    ELSE Some([width |-> w, height |-> h])

\* The bytes of an encoded image: the header carries the pixmap's size, the
\* data what was drawn (the tree, scaled).
PngData(pixmap, drawn) ==
    << [chunk |-> "IHDR", width |-> pixmap.width, height |-> pixmap.height],
       [chunk |-> "IDAT", drawn |-> drawn],
       [chunk |-> "IEND"] >>

\* fontdb::Database::new(): no faces, the default generic families.
Arial == <<65, 114, 105, 97, 108>>

CourierNew == <<67, 111, 117, 114, 105, 101, 114, 32, 78, 101, 119>>

NewDatabase == [sans_serif |-> Arial, monospace |-> CourierNew, faces |-> <<>>]

\* Arc::new(v): one strong reference.
ArcNew(v) == [val |-> v, strong |-> 1]

-----------------------------------------------------------------------------
(* Inputs. *)

\* Byte strings the host passes as markup or as a family name.
Texts == { <<65, 195, 169>>, <<65, 195>> }

\* What usvg::Tree::from_str returns: an error, or a tree whose size() is
\* positive on both axes (1.5 x 5, 2^-149 x 1).
ParseResults ==
    { [ok |-> FALSE, err |-> "SVG has an invalid size"],
      [ok |-> TRUE, width |-> Fin(3, -1), height |-> Fin(5, 0)],
      [ok |-> TRUE, width |-> Fin(1, -149), height |-> Fin(1, 0)] }

\* Text that is not read as markup has no parse result.
NotParsed == [ok |-> FALSE, err |-> ""]

Documents ==
    { [data |-> d, parsed |-> IF from_utf8(d).ok THEN p ELSE NotParsed] :
          d \in Texts, p \in ParseResults }

\* scale_bits (top 16 bits): 1.5, -1.0, NaN, 2^33, 2^-1000
ScaleBits == { 16376, 49136, 32760, 16896, 368 }

\* What Pixmap::encode_png returns for the rendered pixmap.
EncodeResults == { [ok |-> TRUE], [ok |-> FALSE, err |-> "Limits are exceeded."] }

\* Font files: the bytes and the number of faces fontdb parses out of them --
\* no bytes at all, and an OpenType file, which is not UTF-8 text.
FontFiles ==
    { [data |-> <<>>, faces |-> 0], [data |-> <<79, 84, 84, 79, 255>>, faces |-> 1] }

\* alloc_mem sizes: 0, 1 .. MemSize + 1, isize::MAX and isize::MAX + 1.
AllocSizes ==
    { U32(0, n) : n \in 0 .. MemSize + 1 } \cup { U32(32767, 65535), U32(32768, 0) }

-----------------------------------------------------------------------------
(* The handlers, as functions from what they read to what they leave. *)

\* set_error extending the buffer (extend_from_slice) where the source
\* assigns it.
set_error_Append(buf, msg) == buf \o msg

\* fn set_error(msg): ERROR_BUF = msg.as_bytes().to_vec() -- the old content
\* is dropped.
set_error(buf, msg) == msg

\* Arc::clone / drop of a clone: one strong reference more or less.
ArcClone(arc) == [arc EXCEPT !.strong = @ + 1]

ArcDrop(arc) == [arc EXCEPT !.strong = @ - 1]

\* Arc::get_mut_unchecked in place of get_mut: the value whoever else holds it.
ArcGetMut_Unchecked(arc) == Some(arc.val)

\* Arc::get_mut: the value, when this is the only reference to it.
ArcGetMut(arc) == IF arc.strong = 1 THEN Some(arc.val) ELSE None

\* What a status-returning call leaves: whether it returned or panicked, its
\* status, and the statics it may write.
Returned(status, fontdb, error) ==
    [outcome |-> "returned", ret |-> status, font_db |-> fontdb, error |-> error]

\* A panic (Option::unwrap on None, Result::unwrap on Err) ends the call
\* before any static is written: the call returns nothing and the statics
\* are as it found them.
Panicked(fontdb, error) ==
    [outcome |-> "panicked", font_db |-> fontdb, error |-> error]

\* The setter with its two checks in the other order: database, then name.
SetFamily_DbFirst(family, name, fontdb, error) ==
    IF fontdb = None
    THEN Returned(-1, fontdb, set_error(error, NotInitializedMsg))
    ELSE IF ~from_utf8(name).ok
    THEN Returned(-1, fontdb, set_error(error, InvalidUtf8Msg(name)))
    ELSE IF fontdb.val.strong # 1
    THEN Panicked(fontdb, error)
    ELSE Returned(0, Some([fontdb.val EXCEPT !.val[family] = name]), error)

\* The setter taking the database out of FONT_DB (Option::take) before it
\* decodes the name, and putting it back only on success.
SetFamily_TakeOnError(family, name, fontdb, error) ==
    IF ~from_utf8(name).ok
    THEN Returned(-1, None, set_error(error, InvalidUtf8Msg(name)))
    ELSE IF fontdb = None
    THEN Returned(-1, fontdb, set_error(error, NotInitializedMsg))
    ELSE IF fontdb.val.strong # 1
    THEN Panicked(fontdb, error)
    ELSE Returned(0, Some([fontdb.val EXCEPT !.val[family] = name]), error)

\* The setter clearing ERROR_BUF when it succeeds.
SetFamily_ClearOnSuccess(family, name, fontdb, error) ==
    IF ~from_utf8(name).ok
    THEN Returned(-1, fontdb, set_error(error, InvalidUtf8Msg(name)))
    ELSE IF fontdb = None
    THEN Returned(-1, fontdb, set_error(error, NotInitializedMsg))
    ELSE IF fontdb.val.strong # 1
    THEN Panicked(fontdb, error)
    ELSE Returned(0, Some([fontdb.val EXCEPT !.val[family] = name]), "")

\* font_db_set_sans_serif / font_db_set_monospace: decode the name, then
\* require the database, then require exclusive access to it.
SetFamily(family, name, fontdb, error) ==
    IF ~from_utf8(name).ok
    THEN Returned(-1, fontdb, set_error(error, InvalidUtf8Msg(name)))
    ELSE IF fontdb = None
    THEN Returned(-1, fontdb, set_error(error, NotInitializedMsg))
    ELSE IF ArcGetMut(fontdb.val) = None
    THEN Panicked(fontdb, error)
    ELSE Returned(0, Some([fontdb.val EXCEPT !.val[family] = name]), error)

\* font_db_add creating the database it does not find (get_or_insert_with).
AddFont_Implicit(font, fontdb, error) ==
    LET arc == IF fontdb = None THEN ArcNew(NewDatabase) ELSE fontdb.val
    IN  IF arc.strong # 1
        THEN Panicked(fontdb, error)
        ELSE Returned(0,
                 Some([arc EXCEPT !.val.faces =
                           IF font.faces > 0 THEN Append(@, font.data) ELSE @]),
                 error)

\* font_db_add decoding its data first, as the setters decode the name.
AddFont_Decoding(font, fontdb, error) ==
    IF ~from_utf8(font.data).ok
    THEN Returned(-1, fontdb, set_error(error, InvalidUtf8Msg(font.data)))
    ELSE IF fontdb = None
    THEN Returned(-1, fontdb, set_error(error, NotInitializedMsg))
    ELSE IF fontdb.val.strong # 1
    THEN Panicked(fontdb, error)
    ELSE Returned(0,
             Some([fontdb.val EXCEPT !.val.faces =
                       IF font.faces > 0 THEN Append(@, font.data) ELSE @]),
             error)

\* font_db_add: no decoding; the data is handed to fontdb, which keeps it when
\* it holds at least one face.
AddFont(font, fontdb, error) ==
    IF fontdb = None
    THEN Returned(-1, fontdb, set_error(error, NotInitializedMsg))
    ELSE IF ArcGetMut(fontdb.val) = None
    THEN Panicked(fontdb, error)
    ELSE Returned(0,
             Some([fontdb.val EXCEPT !.val.faces =
                       IF font.faces > 0 THEN Append(@, font.data) ELSE @]),
             error)

\* What render leaves: status, both buffers, and the last step it ran.
RenderFailed(step, msg) ==
    [ret |-> -1, result |-> <<>>, error |-> set_error("", msg), step |-> step]

\* render looking for the database before it decodes the markup.
RenderHead_DbFirst(data, fontdb) ==
    IF fontdb = None THEN RenderFailed("font_db", NotInitializedMsg)
    ELSE IF ~from_utf8(data).ok THEN RenderFailed("utf8", InvalidUtf8Msg(data))
    ELSE [ret |-> 0, result |-> <<>>, error |-> "", step |-> "go"]

\* render, lines 94-113, after both buffers are cleared: decode the markup,
\* then look for the database.  "go" when the Arc is cloned.
RenderHead(data, fontdb) ==
    IF ~from_utf8(data).ok THEN RenderFailed("utf8", InvalidUtf8Msg(data))
    ELSE IF fontdb = None THEN RenderFailed("font_db", NotInitializedMsg)
    ELSE [ret |-> 0, result |-> <<>>, error |-> "", step |-> "go"]

\* render with `w == 0 && h == 0` for its size test.
RenderTail_BothZero(doc, scale_bits, enc, db) ==
    IF ~doc.parsed.ok THEN RenderFailed("parse", ParseErrorMsg(doc.parsed.err))
    ELSE LET scale == F64FromBits(scale_bits)
             w == PixelDim(doc.parsed.width, scale)
             h == PixelDim(doc.parsed.height, scale)
             pixmap == PixmapNew(w, h)
         IN  IF w = U32Zero /\ h = U32Zero THEN RenderFailed("size", ZeroDimensionsMsg)
             ELSE IF pixmap = None THEN RenderFailed("pixmap", PixmapMsg)
             ELSE IF ~enc.ok THEN RenderFailed("encode", EncodeErrorMsg(enc.err))
             ELSE [ret |-> 0,
                   result |-> PngData(pixmap.val,
                                  [width |-> doc.parsed.width, height |-> doc.parsed.height,
                                   scale_bits |-> scale_bits]),
                   error |-> "",
                   step |-> "done"]

\* render without its own size test, leaving empty sizes to Pixmap::new.
RenderTail_PixmapFirst(doc, scale_bits, enc, db) ==
    IF ~doc.parsed.ok THEN RenderFailed("parse", ParseErrorMsg(doc.parsed.err))
    ELSE LET scale == F64FromBits(scale_bits)
             w == PixelDim(doc.parsed.width, scale)
             h == PixelDim(doc.parsed.height, scale)
             pixmap == PixmapNew(w, h)
         IN  IF pixmap = None THEN RenderFailed("pixmap", PixmapMsg)
             ELSE IF ~enc.ok THEN RenderFailed("encode", EncodeErrorMsg(enc.err))
             ELSE [ret |-> 0,
                   result |-> PngData(pixmap.val,
                                  [width |-> doc.parsed.width, height |-> doc.parsed.height,
                                   scale_bits |-> scale_bits]),
                   error |-> "",
                   step |-> "done"]

\* render, lines 115-158, with the database the clone points to: parse,
\* size, allocate, rasterize, encode, store.
RenderTail(doc, scale_bits, enc, db) ==
    IF ~doc.parsed.ok THEN RenderFailed("parse", ParseErrorMsg(doc.parsed.err))
    ELSE LET scale == F64FromBits(scale_bits)
             w == PixelDim(doc.parsed.width, scale)
             h == PixelDim(doc.parsed.height, scale)
             pixmap == PixmapNew(w, h)
         IN  IF w = U32Zero \/ h = U32Zero THEN RenderFailed("size", ZeroDimensionsMsg)
             ELSE IF pixmap = None THEN RenderFailed("pixmap", PixmapMsg)
             ELSE IF ~enc.ok THEN RenderFailed("encode", EncodeErrorMsg(enc.err))
             ELSE [ret |-> 0,
                   result |-> PngData(pixmap.val,
                                  [width |-> doc.parsed.width, height |-> doc.parsed.height,
                                   scale_bits |-> scale_bits]),
                   error |-> "",
                   step |-> "done"]

\* The whole of render run to completion.
RenderCall(doc, scale_bits, enc, fontdb) ==
    LET head == RenderHead(doc.data, fontdb)
    IN  IF head.step # "go" THEN head
        ELSE RenderTail(doc, scale_bits, enc, fontdb.val.val)

\* A render that gets no scene tree has nothing to encode.
NotEncoded == [ok |-> FALSE, err |-> ""]

\* The record of a render call that returned: its inputs, as far as there
\* was markup to parse and a tree to draw, its status and the last step it ran.
RenderRecord(doc, scale_bits, enc, r) ==
    [op |-> "render", outcome |-> "returned", ret |-> r.ret, step |-> r.step,
     data |-> doc.data, scale_bits |-> scale_bits,
     parsed |-> IF r.step \in {"utf8", "font_db"} THEN NotParsed ELSE doc.parsed,
     enc |-> IF r.step \in {"utf8", "font_db", "parse"} THEN NotEncoded ELSE enc]

\* The record of a font call.
FontRecord(op, data, r) ==
    IF r.outcome = "returned"
    THEN [op |-> op, outcome |-> "returned", ret |-> r.ret, data |-> data]
    ELSE [op |-> op, outcome |-> "panicked", data |-> data]

-----------------------------------------------------------------------------
(* The allocator behind std::alloc::alloc. *)

\* The addresses a live region covers.
Cells(r) == r.addr .. (r.addr + r.size - 1)

Used == UNION { Cells(r) : r \in heap }

\* Addresses at which n bytes are free.
FreeAt(n) == { a \in 1 .. MemSize : a + n - 1 <= MemSize /\ (a .. (a + n - 1)) \cap Used = {} }

\* Layout::from_size_align(size as usize, 1) on a 32-bit target: Err above
\* isize::MAX.
LayoutOk(size) == size.hi < 32768

\* The outcomes of alloc_mem(size): a panic on a bad layout; for a zero size
\* (undefined for GlobalAlloc::alloc) any address or null, which is not
\* counted as a failure to allocate; an address where the bytes are free;
\* null (0), the allocator's failure, where it has no room.
AllocOutcomes(size) ==
    IF ~LayoutOk(size) THEN { [outcome |-> "panicked"] }
    ELSE IF size = U32Zero
    THEN { [outcome |-> "returned", ret |-> a, failed |-> FALSE, region |-> None] :
               a \in 0 .. MemSize }
    ELSE IF size.hi = 0 /\ FreeAt(size.lo) # {}
    THEN { [outcome |-> "returned", ret |-> a, failed |-> FALSE,
            region |-> Some([addr |-> a, size |-> size.lo])] : a \in FreeAt(size.lo) }
    ELSE { [outcome |-> "returned", ret |-> 0, failed |-> TRUE, region |-> None] }

-----------------------------------------------------------------------------
(* The state after the module is instantiated. *)

Init ==
    /\ FONT_DB = None
    /\ RESULT_BUF = <<>>
    /\ ERROR_BUF = ""
    /\ heap = {}
    /\ inflight = None
    /\ call = [op |-> "none", outcome |-> "returned"]
    /\ pre = [font_db |-> None, had_result |-> FALSE, had_error |-> FALSE]

-----------------------------------------------------------------------------
(* The exported functions. *)

\* The statics as a call finds them.
Found ==
    [font_db |-> FONT_DB, had_result |-> RESULT_BUF # <<>>, had_error |-> ERROR_BUF # ""]

alloc_mem(size) ==
    \E o \in AllocOutcomes(size) :
        /\ heap' = IF o.outcome = "returned" /\ o.region # None
                   THEN heap \cup {o.region.val} ELSE heap
        /\ call' = IF o.outcome = "returned"
                   THEN [op |-> "alloc_mem", outcome |-> "returned", size |-> size,
                         ret |-> o.ret, failed |-> o.failed]
                   ELSE [op |-> "alloc_mem", outcome |-> "panicked", size |-> size]
        /\ pre' = Found
        /\ UNCHANGED <<FONT_DB, RESULT_BUF, ERROR_BUF, inflight>>

\* The host releases a region it holds, with the size it asked for.
dealloc_mem(region) ==
    /\ region \in heap
    /\ heap' = heap \ {region}
    /\ call' = [op |-> "dealloc_mem", outcome |-> "returned",
                ptr |-> region.addr, size |-> region.size]
    /\ pre' = Found
    /\ UNCHANGED <<FONT_DB, RESULT_BUF, ERROR_BUF, inflight>>

\* font_db_init creating a database only where there is none.
font_db_init_Once ==
    /\ FONT_DB' = IF FONT_DB = None THEN Some(ArcNew(NewDatabase)) ELSE FONT_DB
    /\ call' = [op |-> "font_db_init", outcome |-> "returned"]
    /\ pre' = Found
    /\ UNCHANGED <<RESULT_BUF, ERROR_BUF, heap, inflight>>

\* The Arc FONT_DB held is dropped; a render in flight keeps its clone of it.
font_db_init ==
    /\ FONT_DB' = Some(ArcNew(NewDatabase))
    /\ inflight' = IF inflight = None THEN None
                   ELSE Some([inflight.val EXCEPT !.current = FALSE])
    /\ call' = [op |-> "font_db_init", outcome |-> "returned"]
    /\ pre' = Found
    /\ UNCHANGED <<RESULT_BUF, ERROR_BUF, heap>>

\* A font call that clears RESULT_BUF on entry, as render does.
FontCall_ClearsResult(op, data, r) ==
    /\ FONT_DB' = r.font_db
    /\ ERROR_BUF' = r.error
    /\ RESULT_BUF' = <<>>
    /\ call' = FontRecord(op, data, r)
    /\ pre' = Found
    /\ UNCHANGED <<heap, inflight>>

\* The three status-returning font calls: FONT_DB and ERROR_BUF are the only
\* statics their bodies name.
FontCall(op, data, r) ==
    /\ FONT_DB' = r.font_db
    /\ ERROR_BUF' = r.error
    /\ call' = FontRecord(op, data, r)
    /\ pre' = Found
    /\ UNCHANGED <<RESULT_BUF, heap, inflight>>

font_db_set_sans_serif(name) ==
    FontCall("font_db_set_sans_serif", name,
             SetFamily("sans_serif", name, FONT_DB, ERROR_BUF))

font_db_set_monospace(name) ==
    FontCall("font_db_set_monospace", name,
             SetFamily("monospace", name, FONT_DB, ERROR_BUF))

font_db_add(font) ==
    /\ FONT_DB # None => Len(FONT_DB.val.val.faces) < MaxFonts
    /\ FontCall("font_db_add", font.data, AddFont(font, FONT_DB, ERROR_BUF))

\* render without RESULT_BUF.clear(): a failed call leaves the earlier output.
render_KeepResult(doc, scale_bits, enc) ==
    LET r == RenderCall(doc, scale_bits, enc, FONT_DB)
    IN  /\ RESULT_BUF' = IF r.ret = 0 THEN r.result ELSE RESULT_BUF
        /\ ERROR_BUF' = r.error
        /\ call' = RenderRecord(doc, scale_bits, enc, r)
        /\ pre' = Found
        /\ UNCHANGED <<FONT_DB, heap, inflight>>

\* render moving the database out of FONT_DB (Option::take) where the source
\* clones the Arc, and putting it back only when it returns 0.
render_TakeDb(doc, scale_bits, enc) ==
    LET r == RenderCall(doc, scale_bits, enc, FONT_DB)
    IN  /\ RESULT_BUF' = r.result
        /\ ERROR_BUF' = r.error
        /\ FONT_DB' = IF r.ret = 0 THEN FONT_DB ELSE None
        /\ call' = RenderRecord(doc, scale_bits, enc, r)
        /\ pre' = Found
        /\ UNCHANGED <<heap, inflight>>

\* render writing the default family names into the database it is about to
\* parse with.
render_ResetFamilies(doc, scale_bits, enc) ==
    LET r == RenderCall(doc, scale_bits, enc, FONT_DB)
    IN  /\ RESULT_BUF' = r.result
        /\ ERROR_BUF' = r.error
        /\ FONT_DB' = IF r.step \in {"utf8", "font_db"} THEN FONT_DB
                      ELSE Some([FONT_DB.val EXCEPT !.val.sans_serif = Arial,
                                                     !.val.monospace = CourierNew])
        /\ call' = RenderRecord(doc, scale_bits, enc, r)
        /\ pre' = Found
        /\ UNCHANGED <<heap, inflight>>

\* render keeping its clone of the Arc alive (mem::forget) on the returns
\* that follow a failure.
render_LeakClone(doc, scale_bits, enc) ==
    LET r == RenderCall(doc, scale_bits, enc, FONT_DB)
    IN  /\ RESULT_BUF' = r.result
        /\ ERROR_BUF' = r.error
        /\ FONT_DB' = IF r.step \in {"utf8", "font_db"} THEN FONT_DB
                      ELSE IF r.ret = 0 THEN Some(ArcDrop(ArcClone(FONT_DB.val)))
                      ELSE Some(ArcClone(FONT_DB.val))
        /\ call' = RenderRecord(doc, scale_bits, enc, r)
        /\ pre' = Found
        /\ UNCHANGED <<heap, inflight>>

\* render run to completion.  A call that gets past line 113 holds a clone of
\* the Arc in the local `db`, which goes out of scope, and is dropped, on
\* every return after that; the database is only read through it.
render(doc, scale_bits, enc) ==
    LET r == RenderCall(doc, scale_bits, enc, FONT_DB)
    IN  /\ RESULT_BUF' = r.result
        /\ ERROR_BUF' = r.error
        /\ FONT_DB' = IF r.step \in {"utf8", "font_db"} THEN FONT_DB
                      ELSE Some(ArcDrop(ArcClone(FONT_DB.val)))
        /\ call' = RenderRecord(doc, scale_bits, enc, r)
        /\ pre' = Found
        /\ UNCHANGED <<heap, inflight>>

\* The accessors read a static and write none.  The model does not place
\* the buffers in memory, so the two addresses are not part of the record;
\* the lengths are in the units the buffers are modelled in (chunks of the
\* image, characters of the message).
result_ptr ==
    /\ call' = [op |-> "result_ptr", outcome |-> "returned"]
    /\ pre' = Found
    /\ UNCHANGED <<FONT_DB, RESULT_BUF, ERROR_BUF, heap, inflight>>

result_len ==
    /\ call' = [op |-> "result_len", outcome |-> "returned", ret |-> Len(RESULT_BUF)]
    /\ pre' = Found
    /\ UNCHANGED <<FONT_DB, RESULT_BUF, ERROR_BUF, heap, inflight>>

error_ptr ==
    /\ call' = [op |-> "error_ptr", outcome |-> "returned"]
    /\ pre' = Found
    /\ UNCHANGED <<FONT_DB, RESULT_BUF, ERROR_BUF, heap, inflight>>

error_len ==
    /\ call' = [op |-> "error_len", outcome |-> "returned", ret |-> Len(ERROR_BUF)]
    /\ pre' = Found
    /\ UNCHANGED <<FONT_DB, RESULT_BUF, ERROR_BUF, heap, inflight>>

Next ==
    \/ \E size \in AllocSizes : alloc_mem(size)
    \/ \E region \in heap : dealloc_mem(region)
    \/ font_db_init
    \/ \E name \in Texts : font_db_set_sans_serif(name)
    \/ \E name \in Texts : font_db_set_monospace(name)
    \/ \E font \in FontFiles : font_db_add(font)
    \/ \E doc \in Documents, scale_bits \in ScaleBits, enc \in EncodeResults :
           render(doc, scale_bits, enc)
    \/ result_ptr
    \/ result_len
    \/ error_ptr
    \/ error_len

Spec == Init /\ [][Next]_vars

-----------------------------------------------------------------------------
(* render entered a second time, or a font call made, before render has     *)
(* returned: render is split where it takes its clone of the Arc.           *)

\* render, lines 89-113: clear both buffers, decode, take the clone.  A
\* failure here returns at once.
render_begin(doc, scale_bits, enc) ==
    /\ inflight = None
    /\ LET head == RenderHead(doc.data, FONT_DB)
       IN  /\ RESULT_BUF' = head.result
           /\ ERROR_BUF' = head.error
           /\ IF head.step = "go"
              THEN /\ FONT_DB' = Some(ArcClone(FONT_DB.val))
                   /\ inflight' = Some([doc |-> doc, scale_bits |-> scale_bits, enc |-> enc,
                                        found |-> Found, db |-> FONT_DB.val.val,
                                        current |-> TRUE])
                   /\ UNCHANGED <<call, pre>>
              ELSE /\ call' = RenderRecord(doc, scale_bits, enc, head)
                   /\ pre' = Found
                   /\ UNCHANGED <<FONT_DB, inflight>>
    /\ UNCHANGED heap

\* render, lines 115-158: the rest of the call, with the database the clone
\* points to.  Success replaces RESULT_BUF, a failure replaces ERROR_BUF; the
\* clone is dropped on return.
render_finish ==
    /\ inflight # None
    /\ LET f == inflight.val
           r == RenderTail(f.doc, f.scale_bits, f.enc, f.db)
       IN  /\ RESULT_BUF' = IF r.ret = 0 THEN r.result ELSE RESULT_BUF
           /\ ERROR_BUF' = IF r.ret = 0 THEN ERROR_BUF ELSE set_error(ERROR_BUF, r.error)
           /\ FONT_DB' = IF f.current THEN Some(ArcDrop(FONT_DB.val)) ELSE FONT_DB
           /\ call' = RenderRecord(f.doc, f.scale_bits, f.enc, r)
           /\ pre' = f.found
    /\ inflight' = None
    /\ UNCHANGED heap

\* scale_bits of the render calls that are interleaved: 2.0
ReentrantScaleBits == { 16384 }

NextReentrant ==
    \/ \E doc \in Documents, scale_bits \in ReentrantScaleBits, enc \in EncodeResults :
           render_begin(doc, scale_bits, enc)
    \/ render_finish
    \/ font_db_init
    \/ \E name \in Texts : font_db_set_sans_serif(name)
    \/ \E name \in Texts : font_db_set_monospace(name)
    \/ \E font \in FontFiles : font_db_add(font)

SpecReentrant == Init /\ [][NextReentrant]_vars

-----------------------------------------------------------------------------
(* Vocabulary of the properties. *)

FontSetters == { "font_db_set_sans_serif", "font_db_set_monospace" }

FontMutations == FontSetters \cup { "font_db_add" }

\* The database right after font_db_init.
FreshDb == Some([val |-> NewDatabase, strong |-> 1])

ValidUtf8(data) == from_utf8(data).ok

\* ceil(size * scale) as a u32, from the exact product m * 2^e of a positive
\* size and the scale: 0 for a product that is not positive or vanishes in
\* f64, u32::MAX for one above it, else the least integer not below it.
ExpectedPixels(size, scale) ==
    IF scale.cls = "nan" THEN U32(0, 0)
    ELSE IF scale.cls = "inf" THEN (IF scale.m > 0 THEN U32(65535, 65535) ELSE U32(0, 0))
    ELSE LET m == size.m * scale.m
             e == size.e + scale.e
         IN  IF m <= 0 \/ MagAtMost(m, e, -1075) THEN U32(0, 0)
             ELSE IF MagAtLeast(m, e, 32) THEN U32(65535, 65535)
             ELSE IF e >= 16 THEN U32(m * Pow2(e - 16), 0)
             ELSE IF e >= 0 THEN U32((m * Pow2(e)) \div 65536, (m * Pow2(e)) % 65536)
             ELSE IF -e > 30 THEN U32(0, 1)
             ELSE U32(0, (m + Pow2(-e) - 1) \div Pow2(-e))

ScalePositive(scale_bits) ==
    LET x == F64FromBits(scale_bits) IN x.cls # "nan" /\ x.m > 0

\* The last call was a render that got as far as a scene tree: valid UTF-8,
\* a database, a successful parse.
RenderParsed ==
    /\ call.op = "render"
    /\ ValidUtf8(call.data)
    /\ pre.font_db # None
    /\ call.parsed.ok

ExpectedWidth == ExpectedPixels(call.parsed.width, F64FromBits(call.scale_bits))

ExpectedHeight == ExpectedPixels(call.parsed.height, F64FromBits(call.scale_bits))

\* The image in RESULT_BUF is the one the last render call drew, w x h pixels.
ResultIsThisCalls(w, h) ==
    /\ RESULT_BUF # <<>>
    /\ RESULT_BUF[1].width = w /\ RESULT_BUF[1].height = h
    /\ RESULT_BUF[2].drawn = [width |-> call.parsed.width, height |-> call.parsed.height,
                              scale_bits |-> call.scale_bits]

-----------------------------------------------------------------------------
(* C1 *)

\* C1 as claimed: a render that finds no database returns -1 with the
\* 'font_db not initialized' message, whatever the markup bytes.
C1_AnyMarkupNotInitialized ==
    (call.op = "render" /\ pre.font_db = None)
        => (call.ret = -1 /\ ERROR_BUF = NotInitializedMsg)

\* C1 as amended: a render that finds no database returns -1 with an empty
\* Result Buffer; the message is 'font_db not initialized' for markup that is
\* valid UTF-8 and the 'invalid UTF-8' message for markup that is not.
C1_NotInitialized ==
    (call.op = "render" /\ pre.font_db = None)
        => /\ call.ret = -1
           /\ RESULT_BUF = <<>>
           /\ ValidUtf8(call.data) => ERROR_BUF = NotInitializedMsg
           /\ ~ValidUtf8(call.data) => ERROR_BUF = InvalidUtf8Msg(call.data)

C1_Witness ==
    /\ call.op = "render" /\ pre.font_db = None /\ FONT_DB = None
    /\ ValidUtf8(call.data)
    /\ call.ret = -1 /\ ERROR_BUF = NotInitializedMsg

-----------------------------------------------------------------------------
(* C2 *)

\* C2: render returns 0 or -1; after 0 the Result Buffer holds this call's
\* image and the Error Buffer is empty; after -1 the Error Buffer holds a
\* message and the Result Buffer is empty, whatever either held before.
C2_RenderBuffers ==
    call.op = "render"
        => /\ call.outcome = "returned"
           /\ call.ret \in {0, -1}
           /\ call.ret = 0 =>
                 /\ ResultIsThisCalls(ExpectedWidth, ExpectedHeight)
                 /\ ERROR_BUF = ""
           /\ call.ret = -1 => (ERROR_BUF # "" /\ RESULT_BUF = <<>>)

\* A failed render that found the output of an earlier successful one.
C2_Witness ==
    /\ call.op = "render" /\ call.ret = -1
    /\ pre.had_result
    /\ RESULT_BUF = <<>> /\ ERROR_BUF # ""

-----------------------------------------------------------------------------
(* C3 *)

\* font_db_init, then a render of valid UTF-8 markup that parses, at a
\* positive scale.
C3_Case ==
    /\ RenderParsed
    /\ pre.font_db = FreshDb
    /\ ScalePositive(call.scale_bits)

\* C3 as claimed: every such render returns 0 with a non-empty Result Buffer
\* holding an image of ceil(width*scale) x ceil(height*scale) pixels.
C3_AnyPositiveScaleRenders ==
    C3_Case => (call.ret = 0 /\ ResultIsThisCalls(ExpectedWidth, ExpectedHeight))

\* C3 as amended: such a render returns 0 with a non-empty Result Buffer
\* holding an image of ceil(width*scale) x ceil(height*scale) pixels whenever
\* both pixel dimensions are non-zero, a surface of that size can be allocated
\* and the encoder succeeds; otherwise it returns -1 with an empty Result
\* Buffer.
C3_RenderSucceeds ==
    C3_Case =>
        IF /\ ExpectedWidth # U32(0, 0) /\ ExpectedHeight # U32(0, 0)
           /\ PixmapNew(ExpectedWidth, ExpectedHeight) # None
           /\ call.enc.ok
        THEN call.ret = 0 /\ ResultIsThisCalls(ExpectedWidth, ExpectedHeight)
        ELSE call.ret = -1 /\ RESULT_BUF = <<>>

\* 1.5 x 5 at scale 1.5 gives 3 x 8 pixels: both products have a fraction.
C3_Witness ==
    /\ C3_Case
    /\ call.parsed.width = Fin(3, -1) /\ call.scale_bits = 16376
    /\ call.ret = 0
    /\ RESULT_BUF[1].width = U32(0, 3) /\ RESULT_BUF[1].height = U32(0, 8)

-----------------------------------------------------------------------------
(* C4 *)

\* C4: a family setter or render given bytes that are not valid UTF-8 returns
\* -1 with the 'invalid UTF-8' message, with or without a database, and
\* leaves FONT_DB as it found it.
C4_InvalidEncoding ==
    (call.op \in FontSetters \cup {"render"} /\ ~ValidUtf8(call.data))
        => /\ call.outcome = "returned"
           /\ call.ret = -1
           /\ ERROR_BUF = InvalidUtf8Msg(call.data)
           /\ FONT_DB = pre.font_db

\* A setter given a bad name over a database that holds a loaded font.
C4_Witness ==
    /\ call.op \in FontSetters /\ ~ValidUtf8(call.data)
    /\ pre.font_db # None /\ pre.font_db.val.val.faces # <<>>
    /\ FONT_DB = pre.font_db
    /\ call.ret = -1 /\ ERROR_BUF = InvalidUtf8Msg(call.data)

-----------------------------------------------------------------------------
(* C5 *)

\* C5: whatever came before, font_db_init leaves a fresh empty database and
\* touches nothing else, so a second font_db_init changes nothing.
C5_InitIsFresh ==
    [][call'.op = "font_db_init"
          => /\ FONT_DB' = FreshDb
             /\ UNCHANGED <<RESULT_BUF, ERROR_BUF, heap>>
             /\ (call.op = "font_db_init" => FONT_DB' = FONT_DB)]_vars

\* font_db_init over a database with both families replaced and a font loaded.
C5_Witness ==
    /\ call.op = "font_db_init"
    /\ pre.font_db # None
    /\ pre.font_db.val.val.sans_serif # Arial
    /\ pre.font_db.val.val.monospace # CourierNew
    /\ pre.font_db.val.val.faces # <<>>
    /\ FONT_DB = FreshDb

-----------------------------------------------------------------------------
(* C6 *)

\* C6: a render that got a scene tree and whose pixel width or pixel height
\* is zero returns -1 with the zero-dimension message and an empty Result
\* Buffer, and stops at the size test (no surface, no encoding); one zero
\* axis is enough.
C6_ZeroDimension ==
    (RenderParsed /\ (ExpectedWidth = U32(0, 0) \/ ExpectedHeight = U32(0, 0)))
        => /\ call.ret = -1
           /\ ERROR_BUF = ZeroDimensionsMsg
           /\ RESULT_BUF = <<>>
           /\ call.step = "size"

\* Width 2^-149 at scale 2^-1000 vanishes in f64 while height 1 gives 1 pixel.
C6_Witness ==
    /\ RenderParsed
    /\ ExpectedWidth = U32(0, 0) /\ ExpectedHeight # U32(0, 0)
    /\ call.ret = -1 /\ ERROR_BUF = ZeroDimensionsMsg /\ call.step = "size"

-----------------------------------------------------------------------------
(* C7 *)

\* C7: without a database, a family setter given a valid name and
\* font_db_add given any bytes return -1 with the 'font_db not initialized'
\* message and create no database.
C7_FontCallsNeedInit ==
    (/\ pre.font_db = None
     /\ \/ call.op \in FontSetters /\ ValidUtf8(call.data)
        \/ call.op = "font_db_add")
        => /\ call.outcome = "returned"
           /\ call.ret = -1
           /\ ERROR_BUF = NotInitializedMsg
           /\ FONT_DB = None

\* font_db_add of a font file with a face in it, before any font_db_init.
C7_Witness ==
    /\ call.op = "font_db_add" /\ call.data = <<79, 84, 84, 79, 255>>
    /\ pre.font_db = None
    /\ call.ret = -1 /\ ERROR_BUF = NotInitializedMsg /\ FONT_DB = None

-----------------------------------------------------------------------------
(* C8 *)

\* A font mutation that found the database shared with a render in flight.
C8_Case ==
    /\ call.op \in FontMutations
    /\ call.op \in FontSetters => ValidUtf8(call.data)
    /\ pre.font_db # None
    /\ pre.font_db.val.strong > 1

\* C8 as claimed: such a mutation returns a failure status and leaves the
\* database unmodified.
C8_MutationReturnsFailure ==
    C8_Case => (call.outcome = "returned" /\ call.ret = -1 /\ FONT_DB = pre.font_db)

\* C8 as amended: such a mutation panics -- it returns no status, neither
\* success nor failure -- and leaves the database unmodified; as long as a
\* render holds a reference to the database FONT_DB points to, that database
\* is the one the render found.
C8_MutationPanics ==
    /\ C8_Case => (call.outcome = "panicked" /\ FONT_DB = pre.font_db)
    /\ (inflight # None /\ inflight.val.current)
           => (FONT_DB.val.strong = 2 /\ FONT_DB.val.val = inflight.val.db)

\* A setter called over a customised database while a render holds it.
C8_Witness ==
    /\ C8_Case
    /\ call.op = "font_db_set_sans_serif" /\ call.outcome = "panicked"
    /\ inflight # None /\ inflight.val.current
    /\ inflight.val.db.faces # <<>>
    /\ FONT_DB.val.val = inflight.val.db

-----------------------------------------------------------------------------
(* C9 *)

StatusCalls == FontMutations \cup {"render"}

RenderInputs ==
    { <<doc, scale_bits, enc>> :
          doc \in Documents, scale_bits \in ScaleBits, enc \in EncodeResults }

\* C9: a call that returns -1 leaves a message in the Error Buffer and
\* leaves the database as it found it, so every render that would have
\* returned 0 before the failed call returns 0 after it.
C9_FailuresRecoverable ==
    (call.op \in StatusCalls /\ call.outcome = "returned" /\ call.ret = -1)
        => /\ ERROR_BUF # ""
           /\ \A i \in RenderInputs :
                  RenderCall(i[1], i[2], i[3], pre.font_db).ret = 0
                      => RenderCall(i[1], i[2], i[3], FONT_DB).ret = 0

\* A setter rejected for its name, over a database a render can use.
C9_Witness ==
    /\ call.op \in FontSetters /\ call.ret = -1 /\ ~ValidUtf8(call.data)
    /\ pre.font_db # None
    /\ \E i \in RenderInputs : RenderCall(i[1], i[2], i[3], FONT_DB).ret = 0

-----------------------------------------------------------------------------
(* C10 *)

\* C10: alloc_mem returns no address when the allocator has failed -- it
\* panics instead.
C10_AllocFailureAborts ==
    (call.op = "alloc_mem" /\ call.outcome = "returned") => ~call.failed

-----------------------------------------------------------------------------
(* C11 *)

\* C11: a render call leaves in the Result Buffer its own output when it
\* returns 0 and nothing when it returns -1, and no other operation --
\* alloc_mem, dealloc_mem, font_db_init, a family setter, font_db_add, an
\* accessor, returning or not -- changes the Result Buffer; so at every call boundary
\* the buffer is empty or is the output of the most recent render call, which
\* returned 0.
C11_ResultBufferIsLastRender ==
    [][IF call'.op = "render"
       THEN IF call'.ret = 0
            THEN ResultIsThisCalls(ExpectedWidth, ExpectedHeight)'
            ELSE RESULT_BUF' = <<>>
       ELSE RESULT_BUF' = RESULT_BUF]_vars

\* A font call that failed after a successful render: the image is still there.
C11_Witness ==
    /\ call.op \in FontMutations /\ call.outcome = "returned" /\ call.ret = -1
    /\ pre.had_result
    /\ RESULT_BUF # <<>>

-----------------------------------------------------------------------------
(* C12 *)

\* The message a call that returned -1 reports, from the call alone.
FailureMessage(c) ==
    IF c.op = "render"
    THEN CASE c.step = "utf8"    -> InvalidUtf8Msg(c.data)
           [] c.step = "font_db" -> NotInitializedMsg
           [] c.step = "parse"   -> ParseErrorMsg(c.parsed.err)
           [] c.step = "size"    -> ZeroDimensionsMsg
           [] c.step = "pixmap"  -> PixmapMsg
           [] c.step = "encode"  -> EncodeErrorMsg(c.enc.err)
    ELSE IF c.op \in FontSetters /\ ~ValidUtf8(c.data)
    THEN InvalidUtf8Msg(c.data)
    ELSE NotInitializedMsg

ReturnedFailure(c) ==
    c.op \in StatusCalls /\ c.outcome = "returned" /\ c.ret = -1

\* C12: a call that returns -1 leaves in the Error Buffer exactly its own
\* message, whatever the buffer held (replaced, not appended to); a render
\* that returns 0 leaves it empty; every other call leaves it as it was.  So
\* at every call boundary the buffer is empty or holds the message of the
\* most recent call that returned -1, and only render empties it.
C12_ErrorBufferIsLastFailure ==
    [][IF ReturnedFailure(call')
       THEN ERROR_BUF' = FailureMessage(call') /\ ERROR_BUF' # ""
       ELSE IF call'.op = "render"
       THEN ERROR_BUF' = ""
       ELSE ERROR_BUF' = ERROR_BUF]_vars

\* A font call that failed over the message of an earlier failure.
C12_Witness ==
    /\ call.op = "font_db_add" /\ call.outcome = "returned" /\ call.ret = -1
    /\ pre.had_error
    /\ ERROR_BUF = NotInitializedMsg

-----------------------------------------------------------------------------
(* C13 *)

\* The failure tests of render, in the order claimed.
RenderSteps == <<"utf8", "font_db", "parse", "size", "pixmap", "encode">>

\* Whether a step's test fails for the given arguments and database, were
\* the step reached.
StepFails(step, doc, scale_bits, enc, fontdb) ==
    LET scale == F64FromBits(scale_bits)
        w == ExpectedPixels(doc.parsed.width, scale)
        h == ExpectedPixels(doc.parsed.height, scale)
    IN  CASE step = "utf8"    -> ~ValidUtf8(doc.data)
          [] step = "font_db" -> fontdb = None
          [] step = "parse"   -> ~doc.parsed.ok
          [] step = "size"    -> doc.parsed.ok /\ (w = U32(0, 0) \/ h = U32(0, 0))
          [] step = "pixmap"  -> doc.parsed.ok /\ PixmapNew(w, h) = None
          [] step = "encode"  -> ~enc.ok

FailingSteps(doc, scale_bits, enc, fontdb) ==
    { k \in 1 .. Len(RenderSteps) : StepFails(RenderSteps[k], doc, scale_bits, enc, fontdb) }

\* The earliest failing step, "done" when there is none.
FirstFailure(doc, scale_bits, enc, fontdb) ==
    LET F == FailingSteps(doc, scale_bits, enc, fontdb)
    IN  IF F = {} THEN "done"
        ELSE RenderSteps[CHOOSE k \in F : \A j \in F : k <= j]

StepMessage(step, doc, enc) ==
    CASE step = "utf8"    -> InvalidUtf8Msg(doc.data)
      [] step = "font_db" -> NotInitializedMsg
      [] step = "parse"   -> ParseErrorMsg(doc.parsed.err)
      [] step = "size"    -> ZeroDimensionsMsg
      [] step = "pixmap"  -> PixmapMsg
      [] step = "encode"  -> EncodeErrorMsg(enc.err)
      [] step = "done"    -> ""

\* FONT_DB is as the module started with it or as a font call has just left
\* it: every value FONT_DB takes is met in such a state.
FontDbJustWritten == call.op \in {"none", "font_db_init"} \cup FontMutations

\* C13: for every markup, scale and encoder outcome, with any database the
\* font calls can leave or none, render stops at the earliest of its failing tests in the order UTF-8
\* decode, database present, parse, zero dimension, surface allocation,
\* encoding, and leaves that test's message alone in the Error Buffer, also
\* when later tests would fail too; it returns 0 only when none fails.  The
\* last render call stopped where its record says.
C13_FirstFailureWins ==
    /\ FontDbJustWritten =>
           \A i \in RenderInputs :
               LET r == RenderCall(i[1], i[2], i[3], FONT_DB)
                   first == FirstFailure(i[1], i[2], i[3], FONT_DB)
               IN  /\ r.step = first
                   /\ r.error = StepMessage(first, i[1], i[3])
                   /\ (r.ret = -1) = (first # "done")
    /\ call.op = "render" =>
           /\ ERROR_BUF = (IF call.ret = -1 THEN FailureMessage(call) ELSE "")
           /\ call.step = "utf8" <=> ~ValidUtf8(call.data)
           /\ call.step = "font_db" <=> (ValidUtf8(call.data) /\ pre.font_db = None)

\* Markup that is not UTF-8 given to render before any font_db_init: two
\* tests fail, the first is reported.
C13_Witness ==
    /\ call.op = "render" /\ ~ValidUtf8(call.data) /\ pre.font_db = None
    /\ call.ret = -1 /\ call.step = "utf8"
    /\ ERROR_BUF = InvalidUtf8Msg(call.data)
    /\ Cardinality(FailingSteps([data |-> call.data, parsed |-> call.parsed],
                                call.scale_bits, call.enc, pre.font_db)) > 1

-----------------------------------------------------------------------------
(* C15 *)

\* C15: once there is a database no call, failing or not, a further
\* font_db_init included, leaves FONT_DB without one, and no call that finds
\* a database returns -1 with the 'font_db not initialized' message.
C15_ReadyIsStable ==
    [][FONT_DB # None
          => /\ FONT_DB' # None
             /\ ReturnedFailure(call') => ERROR_BUF' # NotInitializedMsg]_vars

\* A render that failed over a database that had been given a family or a
\* font.
C15_Witness ==
    /\ call.op = "render" /\ call.ret = -1
    /\ pre.font_db # None /\ pre.font_db # FreshDb
    /\ FONT_DB = pre.font_db
    /\ ERROR_BUF # NotInitializedMsg

-----------------------------------------------------------------------------
(* C14 *)

\* The render calls that take a clone of the Arc: those that get past the
\* decoding and find a database.
TookClone(c) == c.op = "render" /\ c.step \notin {"utf8", "font_db"}

\* C14: with every call run to completion, the database has exactly one
\* owner at every call boundary -- a render that took its reference has
\* released it however it returned -- so a family setter given a valid name
\* and font_db_add, over a database, always get exclusive access: they
\* return, and return 0.
C14_OneOwnerBetweenCalls ==
    /\ inflight = None
    /\ FONT_DB # None => FONT_DB.val.strong = 1
    /\ TookClone(call) => (FONT_DB = pre.font_db /\ FONT_DB.val.strong = 1)
    /\ call.op \in FontMutations => call.outcome = "returned"
    /\ (/\ call.op \in FontMutations
        /\ pre.font_db # None
        /\ call.op \in FontSetters => ValidUtf8(call.data))
           => call.ret = 0

\* font_db_add accepted while the Error Buffer still holds the message of a
\* render that failed after it had taken its reference.
C14_Witness ==
    /\ call.op = "font_db_add" /\ call.outcome = "returned" /\ call.ret = 0
    /\ ERROR_BUF \in {ZeroDimensionsMsg, PixmapMsg}
    /\ FONT_DB.val.strong = 1

-----------------------------------------------------------------------------
(* C16 *)

\* What a database holds, whoever owns it: nothing, or the two family names
\* and the loaded fonts.
Registry(fontdb) == IF fontdb = None THEN None ELSE Some(fontdb.val.val)

SameRenderInputs(c, d) ==
    /\ c.data = d.data /\ c.scale_bits = d.scale_bits
    /\ c.parsed = d.parsed /\ c.enc = d.enc

\* C16: whatever its arguments and however it returns, render leaves the
\* database -- its presence, its family names, its fonts -- as it found it;
\* so does every call that is not a font call.  A render that directly
\* follows a render finds the database the first one found and, given the
\* same arguments, returns the same status and leaves the same buffers.
C16_RenderReadsOnly ==
    [][/\ call'.op \notin FontMutations \cup {"font_db_init"}
          => Registry(FONT_DB') = Registry(FONT_DB)
       /\ call'.op = "render"
          => /\ Registry(FONT_DB') = Registry(FONT_DB)
             /\ Registry(pre'.font_db) = Registry(FONT_DB)
             /\ call.op = "render"
                    => /\ Registry(pre'.font_db) = Registry(pre.font_db)
                       /\ SameRenderInputs(call, call')
                              => /\ call'.ret = call.ret
                                 /\ RESULT_BUF' = RESULT_BUF
                                 /\ ERROR_BUF' = ERROR_BUF]_vars

\* A render that returned 0 over a database with a replaced family and a
\* loaded font.
C16_Witness ==
    /\ call.op = "render" /\ call.ret = 0
    /\ pre.font_db # None
    /\ pre.font_db.val.val.sans_serif # Arial
    /\ pre.font_db.val.val.faces # <<>>
    /\ Registry(FONT_DB) = Registry(pre.font_db)

-----------------------------------------------------------------------------
(* C18 *)

\* C18: font_db_init, and a family setter or font_db_add that returns 0,
\* leave the Error Buffer exactly as it was, a message left by an earlier
\* failure included; the Error Buffer goes from holding a message to being
\* empty only in a render call.
C18_SuccessKeepsStaleError ==
    [][/\ (\/ call'.op = "font_db_init"
           \/ /\ call'.op \in FontMutations
              /\ call'.outcome = "returned" /\ call'.ret = 0)
              => ERROR_BUF' = ERROR_BUF
       /\ (ERROR_BUF # "" /\ ERROR_BUF' = "") => call'.op = "render"]_vars

\* A setter that returned 0 with the 'font_db not initialized' message of an
\* earlier call still in the Error Buffer.
C18_Witness ==
    /\ call.op \in FontSetters /\ call.outcome = "returned" /\ call.ret = 0
    /\ pre.had_error
    /\ ERROR_BUF = NotInitializedMsg

-----------------------------------------------------------------------------
(* C19 *)

\* C19: a family setter given a name that is not UTF-8 while there is no
\* database reports the 'invalid UTF-8' error, not 'font_db not
\* initialized'.  font_db_add decodes nothing: the only failure it reports
\* is 'font_db not initialized', and over a database it returns 0 for every
\* byte sequence, the empty one and one that is not UTF-8 included.
C19_SettersDecodeAddDoesNot ==
    /\ (call.op \in FontSetters /\ ~ValidUtf8(call.data) /\ pre.font_db = None)
           => /\ call.outcome = "returned" /\ call.ret = -1
              /\ ERROR_BUF = InvalidUtf8Msg(call.data)
              /\ ERROR_BUF # NotInitializedMsg
    /\ call.op = "font_db_add"
           => /\ call.outcome = "returned"
              /\ call.ret = (IF pre.font_db = None THEN -1 ELSE 0)
              /\ call.ret = -1 => ERROR_BUF = NotInitializedMsg
    /\ FONT_DB # None
           => \A font \in FontFiles :
                  LET r == AddFont(font, FONT_DB, ERROR_BUF)
                  IN  r.outcome = "returned" /\ r.ret = 0 /\ r.error = ERROR_BUF

\* font_db_add, over a database, of bytes that are not UTF-8, with a message
\* of an earlier failure in the Error Buffer.
C19_Witness ==
    /\ call.op = "font_db_add" /\ ~ValidUtf8(call.data)
    /\ pre.font_db # None /\ pre.had_error
    /\ call.ret = 0
    /\ FONT_DB.val.val.faces = <<call.data>>

-----------------------------------------------------------------------------
(* C20 *)

\* scale_bits of scales that are not positive: 0.0, -0.0, -2^-1000, -1.0,
\* -2^33, -infinity
NonPositiveScaleBits == { 0, 32768, 33136, 49136, 49664, 65520 }

ScaleNotPositive(scale_bits) ==
    LET x == F64FromBits(scale_bits) IN x.cls # "nan" /\ x.m <= 0

\* size * scale is 2^32 or more.
ProductAboveU32(size, scale_bits) ==
    LET x == F64FromBits(scale_bits)
    IN  \/ x.cls = "inf" /\ x.m > 0
        \/ x.cls = "fin" /\ x.m > 0 /\ MagAtLeast(size.m * x.m, size.e + x.e, 32)

\* C20: at every scale that is zero or negative, markup that decodes and
\* parses, over a database, gets pixel dimensions 0 x 0 -- a negative product
\* converts to 0, not to a large unsigned value -- and render returns -1 with
\* the zero-dimension message at the size test, before any surface is
\* allocated; a product of 2^32 or more converts to u32::MAX, not to its
\* residue, so such a render does not stop at the size test for that axis.
C20_ConversionSaturates ==
    /\ (FontDbJustWritten /\ FONT_DB # None) =>
           \A doc \in Documents, scale_bits \in NonPositiveScaleBits, enc \in EncodeResults :
               (ValidUtf8(doc.data) /\ doc.parsed.ok)
                   => LET r == RenderCall(doc, scale_bits, enc, FONT_DB)
                      IN  /\ ScaleNotPositive(scale_bits)
                          /\ PixelDim(doc.parsed.width, F64FromBits(scale_bits)) = U32(0, 0)
                          /\ PixelDim(doc.parsed.height, F64FromBits(scale_bits)) = U32(0, 0)
                          /\ r.ret = -1 /\ r.step = "size" /\ r.error = ZeroDimensionsMsg
    /\ (RenderParsed /\ ScaleNotPositive(call.scale_bits))
           => /\ call.ret = -1 /\ call.step = "size"
              /\ ERROR_BUF = ZeroDimensionsMsg /\ RESULT_BUF = <<>>
    /\ (RenderParsed /\ ProductAboveU32(call.parsed.width, call.scale_bits))
           => /\ PixelDim(call.parsed.width, F64FromBits(call.scale_bits)) = U32(65535, 65535)
              /\ call.step # "size" \/ ExpectedHeight = U32(0, 0)
    /\ (RenderParsed /\ ProductAboveU32(call.parsed.height, call.scale_bits))
           => /\ PixelDim(call.parsed.height, F64FromBits(call.scale_bits)) = U32(65535, 65535)
              /\ call.step # "size" \/ ExpectedWidth = U32(0, 0)
    /\ (/\ RenderParsed
        /\ ProductAboveU32(call.parsed.width, call.scale_bits)
        /\ ProductAboveU32(call.parsed.height, call.scale_bits))
           => (call.ret = -1 /\ call.step = "pixmap" /\ ERROR_BUF = PixmapMsg)

\* 1.5 x 5 at scale -1.0: the products -1.5 and -5 round up to -1 and -5.
C20_Witness ==
    /\ RenderParsed
    /\ call.parsed.width = Fin(3, -1) /\ call.scale_bits = 49136
    /\ call.ret = -1 /\ call.step = "size" /\ ERROR_BUF = ZeroDimensionsMsg

-----------------------------------------------------------------------------
(* C17 *)

\* Two regions share a byte.
Overlap(a, b) ==
    /\ a.size > 0 /\ b.size > 0
    /\ a.addr < b.addr + b.size
    /\ b.addr < a.addr + a.size

\* What the host holds after alloc_mem(size) has returned: size bytes at the
\* address returned.
ReturnedRegion == [addr |-> call.ret, size |-> ToInt(call.size)]

\* C17: the regions alloc_mem has returned and dealloc_mem has not released
\* are pairwise disjoint; in particular the region alloc_mem returns shares
\* no byte with a region returned earlier and still live.
C17_LiveRegionsDisjoint ==
    /\ \A a, b \in heap : a # b => ~Overlap(a, b)
    /\ (call.op = "alloc_mem" /\ call.outcome = "returned")
           => \A b \in heap : b # ReturnedRegion => ~Overlap(ReturnedRegion, b)

====
